---- MODULE Spec2Model ----
(***************************************************************************)
(* A model of the bounded tool-dispatch loops of the market-intelligence   *)
(* agent:                                                                  *)
(*   - ReasoningLoop (market_intel_agent/core/reasoning_loop.py), the      *)
(*     rule-based loop with the RAG fallback, and its basic variant        *)
(*     (market_survey_ai_agent/market_intel_agent/core/reasoning_loop.py); *)
(*   - react_generate_report (Market_survey/main.py), the LLM-driven loop. *)
(* Python values are tagged records, strings are sequences of words, so    *)
(* that truthiness, isinstance and substring tests are computed the way    *)
(* the code computes them.                                                 *)
(***************************************************************************)
EXTENDS Integers, Sequences, FiniteSets, TLC

VARIABLES
    \* ---- ReasoningLoop: configuration fixed by __init__
    variant,               \* which of the two classes: "fallback" | "basic"
    tools,                 \* keys of self.tools
    max_iterations,        \* self.max_iterations
    use_fallback,          \* self.use_fallback
    max_fallback_attempts, \* self.max_fallback_attempts
    \* ---- ReasoningLoop: self.working_memory
    thoughts,
    actions,
    observations,
    fallback_attempts,
    collected_data,
    wm_parsed_input,       \* working_memory["parsed_input"] (absent until run)
    \* ---- ReasoningLoop: the frame of run()
    pc,                    \* "ready" | "running" | "returned" | "raised"
    parsed_input,          \* the argument of run()
    iteration,             \* the local counter of run()
    \* ---- observers: what a recording test double of the tools would see
    calls,                 \* every invocation made on a tool object, in order
    runs,                  \* number of run() calls made on the instance
    mark,                  \* lengths of the logs when the current run began
    \* ---- react_generate_report: the frame of the function
    r_pc,                  \* "ready" | "loop" | "returned" | "raised"
    r_iter,                \* number of completed passes of `for _ in range(12)`
    scratchpad,            \* the pieces appended to the scratchpad string, in order
    messages,              \* the scratchpad in the system prompt, and the user prompt
    text,                  \* content of the latest model response
    result,                \* the returned string
    \* ---- observers of react_generate_report
    llm_calls,             \* number of llm.invoke calls
    sleeps,                \* number of time.sleep(25) calls
    tool_runs,             \* every registry[action].run(tool_arg) call, in order
    step,                  \* what the latest pass did: model calls, sleeps, tool runs,
                           \* and whether it got a model response
    events,                \* passes in which the model did not just chat on
    \* ---- main() of Market_survey/main.py
    mode,                  \* "none" (the function is called directly) | "idea_json" | "idea" | "name"
    m_pc,                  \* "running" | "done"
    printed,               \* the report main() printed
    offline_calls,         \* number of offline_generate_report calls
    \* ---- WorkingMemory of market_survey_ai_agent/market_intel_agent/utils/memory.py
    wm_collected_data,     \* self.collected_data: category -> value
    wm_updates             \* every update_collected_data call made, in order

loopVars == <<variant, tools, max_iterations, use_fallback, max_fallback_attempts,
              thoughts, actions, observations, fallback_attempts,
              collected_data, wm_parsed_input, pc, parsed_input, iteration,
              calls, runs, mark>>

reactVars == <<r_pc, r_iter, scratchpad, messages, text, result,
               llm_calls, sleeps, tool_runs, step, events>>

mainVars == <<mode, m_pc, printed, offline_calls>>

memVars == <<wm_collected_data, wm_updates>>

vars == <<loopVars, reactVars, mainVars, memVars>>

-----------------------------------------------------------------------------
(* Bounds of the model *)

MaxIterations == 4

MaxFallbackAttempts == 2

\* Calls of run() on one instance
MaxRuns == 2

\* Calls of run() made on an instance whose data already satisfy the stopping
\* predicate
MaxReruns == 2

\* Calls of WorkingMemory.update_collected_data on one instance
MaxUpdates == 3

\* Passes of the LLM-driven loop in which the model (or the provider) does
\* something else than reply with plain text
MaxEvents == 1

-----------------------------------------------------------------------------
(* Python values: a kind tag and the items (list elements, dict keys, or the *)
(* words of a string).  A competitor record is abstracted by its "name".     *)

PyList(items) == [kind |-> "list", items |-> items]

PyDict(keys) == [kind |-> "dict", items |-> keys]

PyStr(words) == [kind |-> "str", items |-> words]

\* bool(v), and len(v) > 0, for a list, a dict or a string
Truthy(v) == Len(v.items) > 0

\* isinstance(v, list)
IsList(v) == v.kind = "list"

\* str.lower(), word by word
LowerWord(w) ==
    CASE w = "I"       -> "i"
      [] w = "FinTech" -> "fintech"
      [] w = "RAG"     -> "rag"
      [] OTHER         -> w

Lower(s) == [i \in 1..Len(s) |-> LowerWord(s[i])]

\* `sub in s` for strings, at word granularity
Contains(s, sub) ==
    \E i \in 0..(Len(s) - Len(sub)) : SubSeq(s, i + 1, i + Len(sub)) = sub

\* dict.get(key, default) on a parsed input
Get(d, key, default) == IF key \in d.keys THEN d[key] ELSE default

EmptyDict == [keys |-> {}, domain |-> <<>>, key_features |-> <<>>]

ParsedInput(domain, features) ==
    [keys |-> {"domain", "key_features"}, domain |-> domain, key_features |-> features]

-----------------------------------------------------------------------------
(* The environment: tool names, tool results, inputs *)

Variants == {"fallback", "basic"}

ToolNames == {"CompetitorFinder", "FundingRetriever", "WebSearchTool", "RAGQueryTool"}

\* The registries the loop is constructed with
ToolSets == {ToolNames, ToolNames \ {"RAGQueryTool"}, ToolNames \ {"FundingRetriever"}}

\* The inputs run() is called with
ScenarioInput == ParsedInput(<<"FinTech">>, <<>>)

ParsedInputs ==
    { ScenarioInput,
      ParsedInput(<<"funding", "data", "analytics">>, <<"dashboards">>),
      ParsedInput(<<"find", "competitors", "fast">>, <<>>) }

Returns(v) == [raises |-> FALSE, value |-> v]

Raises == [raises |-> TRUE, value |-> PyList(<<>>)]

NoCall == [raises |-> FALSE, value |-> PyStr(<<>>)]

\* What one call of a tool can do: return a payload or raise
Outcomes(tool) ==
    CASE tool = "CompetitorFinder" ->
            {Returns(PyList(<<>>)), Returns(PyList(<<"Acme", "Bolt">>)), Raises}
      [] tool = "FundingRetriever" ->
            {Returns(PyDict(<<>>)), Returns(PyDict(<<"Acme">>)), Raises}
      [] tool = "WebSearchTool" ->
            {Returns(PyList(<<>>)), Returns(PyList(<<"article">>)), Raises}
      [] tool = "RAGQueryTool" ->
            {Returns(PyList(<<>>)), Returns(PyList(<<"passage">>)),
             Returns(PyDict(<<"answer">>)), Raises}
      [] OTHER -> {NoCall}

-----------------------------------------------------------------------------
(* ReasoningLoop, market_intel_agent/core/reasoning_loop.py *)

EmptyCollectedData ==
    [competitors |-> PyList(<<>>), funding_data |-> PyDict(<<>>),
     web_search_results |-> PyList(<<>>), rag_results |-> PyList(<<>>)]

\* The fourth thought names the "rag system" in the fallback variant and the
\* "RAG system" in the basic one
RagWord == IF variant = "basic" THEN "RAG" ELSE "rag"

\* The keyword in lower case in both variants
RagKeyword_Lower == <<"query", "the", "rag">>

\* The keyword _determine_action looks for in thought.lower(): "query the rag"
\* in the fallback variant, "query the RAG" in the basic one
RagKeyword ==
    IF variant = "basic" THEN <<"query", "the", "RAG">> ELSE <<"query", "the", "rag">>

\* GenerateThought with the web-results gap ranked before the funding gap
GenerateThought_WebFirst(pi, cd) ==
    LET domain == Get(pi, "domain", <<"startup">>) IN
    IF ~Truthy(cd.competitors)
    THEN <<"I", "need", "to", "find", "competitors", "in", "the">> \o domain \o <<"domain">>
    ELSE IF ~Truthy(cd.web_search_results)
    THEN <<"I", "need", "to", "search", "for", "market", "trends", "in">> \o domain
    ELSE IF ~Truthy(cd.funding_data) /\ Truthy(cd.competitors)
    THEN <<"I", "should", "retrieve", "funding", "data", "for", "the",
           "identified", "competitors">>
    ELSE IF ~Truthy(cd.rag_results)
    THEN <<"I", "should", "query", "the", RagWord, "system", "for", "additional", "context">>
    ELSE <<"I", "have", "collected", "sufficient", "data", "for", "analysis">>

GenerateThought(pi, cd) ==
    LET domain == Get(pi, "domain", <<"startup">>) IN
    IF ~Truthy(cd.competitors)
    THEN <<"I", "need", "to", "find", "competitors", "in", "the">> \o domain \o <<"domain">>
    ELSE IF ~Truthy(cd.funding_data) /\ Truthy(cd.competitors)
    THEN <<"I", "should", "retrieve", "funding", "data", "for", "the",
           "identified", "competitors">>
    ELSE IF ~Truthy(cd.web_search_results)
    THEN <<"I", "need", "to", "search", "for", "market", "trends", "in">> \o domain
    ELSE IF ~Truthy(cd.rag_results)
    THEN <<"I", "should", "query", "the", RagWord, "system", "for", "additional", "context">>
    ELSE <<"I", "have", "collected", "sufficient", "data", "for", "analysis">>

\* The tool name _determine_action returns for a thought
ActionTool(thought) ==
    LET t == Lower(thought) IN
    IF Contains(t, <<"find", "competitors">>) THEN "CompetitorFinder"
    ELSE IF Contains(t, <<"funding", "data">>) THEN "FundingRetriever"
    ELSE IF Contains(t, <<"search", "for", "market">>) THEN "WebSearchTool"
    ELSE IF Contains(t, RagKeyword) THEN "RAGQueryTool"
    ELSE "NoOp"

\* [comp["name"] for comp in competitors] raises TypeError unless competitors
\* is a list of records: a string or a dict iterates over strings
DetermineActionRaises(thought, cd) ==
    /\ ActionTool(thought) = "FundingRetriever"
    /\ Truthy(cd.competitors)
    /\ ~IsList(cd.competitors)

NoArgs == [keys |-> {}, domain |-> <<>>, features |-> <<>>, companies |-> <<>>, query |-> <<>>]

\* The tool arguments _determine_action returns (num_results is the constant 5)
ActionArgs(thought, cd, wmpi) ==
    LET tool == ActionTool(thought)
        domain == Get(wmpi, "domain", <<>>)
    IN  CASE tool = "CompetitorFinder" ->
                [NoArgs EXCEPT !.keys = {"domain", "features"},
                               !.domain = domain,
                               !.features = Get(wmpi, "key_features", <<>>)]
          [] tool = "FundingRetriever" ->
                [NoArgs EXCEPT !.keys = {"companies"},
                               !.companies = IF Truthy(cd.competitors)
                                             THEN cd.competitors.items ELSE <<>>]
          [] tool = "WebSearchTool" ->
                [NoArgs EXCEPT !.keys = {"query", "num_results"},
                               !.query = domain \o <<"market", "trends", "2023">>]
          [] tool = "RAGQueryTool" ->
                [NoArgs EXCEPT !.keys = {"query"},
                               !.query = domain \o <<"startup", "success", "factors">>]
          [] OTHER -> NoArgs

ErrorNotFound(tool) == PyStr(<<"Error:", "Tool", tool, "not", "found">>)

ErrorExecuting(tool) == PyStr(<<"Error", "executing", tool>>)

ErrorUnsupported(tool) == PyStr(<<"Error:", "Unsupported", "tool", tool>>)

\* Dispatched without the test that the tool is registered
Dispatched_Unchecked(tool_name) == tool_name \in ToolNames

\* _execute_tool dispatches to a tool object exactly for these names
Dispatched(tool_name) == tool_name \in tools /\ tool_name \in ToolNames

ExecuteTool(tool_name, outcome) ==
    IF tool_name \notin tools THEN ErrorNotFound(tool_name)
    ELSE IF tool_name \in ToolNames
    THEN IF outcome.raises THEN ErrorExecuting(tool_name) ELSE outcome.value
    ELSE ErrorUnsupported(tool_name)

UpdateCollectedData(cd, tool_name, observation) ==
    CASE tool_name = "CompetitorFinder" -> [cd EXCEPT !.competitors = observation]
      [] tool_name = "FundingRetriever" -> [cd EXCEPT !.funding_data = observation]
      [] tool_name = "WebSearchTool"    -> [cd EXCEPT !.web_search_results = observation]
      [] tool_name = "RAGQueryTool"     -> [cd EXCEPT !.rag_results = observation]
      [] OTHER -> cd

\* _should_stop counting retrieval results only as the additional data
ShouldStop_NeedsRag(cd) ==
    /\ Len(cd.competitors.items) > 0
    /\ Truthy(cd.funding_data)
    /\ Len(cd.rag_results.items) > 0

\* ShouldStop asking for web results and RAG results, not for either
ShouldStop_AllFour(cd) ==
    /\ Len(cd.competitors.items) > 0
    /\ Truthy(cd.funding_data)
    /\ Len(cd.web_search_results.items) > 0
    /\ Len(cd.rag_results.items) > 0

ShouldStop(cd) ==
    LET has_competitors == Len(cd.competitors.items) > 0
        has_funding     == Truthy(cd.funding_data)
        has_web_results == Len(cd.web_search_results.items) > 0
        has_rag_results == Len(cd.rag_results.items) > 0
    IN  has_competitors /\ has_funding /\ (has_web_results \/ has_rag_results)

\* _needs_fallback without the bound on fallback_attempts
NeedsFallback_Unbounded(tool_name, observation, attempts) ==
    IF tool_name = "WebSearchTool"
    THEN IsList(observation) /\ Len(observation.items) = 0
    ELSE FALSE

\* NeedsFallback without the test that the observation is an empty list
NeedsFallback_AnyResult(tool_name, observation, attempts) ==
    IF tool_name = "WebSearchTool"
    THEN attempts < max_fallback_attempts
    ELSE FALSE

NeedsFallback(tool_name, observation, attempts) ==
    IF tool_name = "WebSearchTool"
    THEN IsList(observation) /\ Len(observation.items) = 0
         /\ attempts < max_fallback_attempts
    ELSE FALSE

\* _execute_fallback queries the RAG tool exactly in this case
FallbackDispatched(failed_tool_name) ==
    failed_tool_name = "WebSearchTool" /\ "RAGQueryTool" \in tools

ExecuteFallback(failed_tool_name, outcome) ==
    IF FallbackDispatched(failed_tool_name)
    THEN IF outcome.raises THEN PyList(<<>>) ELSE outcome.value
    ELSE PyList(<<>>)

\* An exception of the tool is caught by _execute_tool in the fallback
\* variant and by nothing in the basic one
Propagates(outcome) == outcome.raises /\ variant = "basic"

\* `x if isinstance(x, list) else [x]`; the wrapped object is one element
AsList(v) == IF IsList(v) THEN v ELSE PyList(<<v.kind>>)

-----------------------------------------------------------------------------
(* State machine of ReasoningLoop *)

\* One invocation of a tool object: which tool, from the main path or the
\* fallback path, and what the tool did
Call(tool, path, o) == [tool |-> tool, path |-> path, raises |-> o.raises, value |-> o.value]

Marks == [thoughts |-> Len(thoughts), actions |-> Len(actions),
          observations |-> Len(observations), calls |-> Len(calls),
          fallback_attempts |-> fallback_attempts]

\* The basic class has no fallback: it is the loop with the fallback off
LoopInit ==
    /\ variant \in Variants
    /\ tools \in ToolSets
    /\ max_iterations \in 1..MaxIterations
    /\ use_fallback \in (IF variant = "basic" THEN {FALSE} ELSE BOOLEAN)
    /\ max_fallback_attempts \in (IF variant = "basic" THEN {0} ELSE 0..MaxFallbackAttempts)
    /\ thoughts = <<>>
    /\ actions = <<>>
    /\ observations = <<>>
    /\ fallback_attempts = 0
    /\ collected_data = EmptyCollectedData
    /\ wm_parsed_input = EmptyDict
    /\ pc = "ready"
    /\ parsed_input = EmptyDict
    /\ iteration = 0
    /\ calls = <<>>
    /\ runs = 0
    /\ mark = [thoughts |-> 0, actions |-> 0, observations |-> 0, calls |-> 0,
               fallback_attempts |-> 0]

\* run(parsed_input) is entered on the freshly constructed instance: lines
\* 70-73; the basic variant does not store the input in the working memory
RunStart ==
    /\ pc = "ready"
    /\ \E pi \in ParsedInputs :
          /\ parsed_input' = pi
          /\ wm_parsed_input' = IF variant = "basic" THEN wm_parsed_input ELSE pi
    /\ iteration' = 0
    /\ pc' = "running"
    /\ runs' = runs + 1
    /\ mark' = Marks
    /\ UNCHANGED <<variant, tools, max_iterations, use_fallback, max_fallback_attempts,
                   thoughts, actions, observations, fallback_attempts,
                   collected_data, calls>>
    /\ UNCHANGED reactVars
    /\ UNCHANGED mainVars
    /\ UNCHANGED memVars

\* One pass through the body of the while loop, lines 75-110
Iteration ==
    /\ pc = "running"
    /\ iteration < max_iterations
    /\ LET thought   == GenerateThought(parsed_input, collected_data)
           tool_name == ActionTool(thought)
           tool_args == ActionArgs(thought, collected_data, wm_parsed_input)
       IN
       /\ ~DetermineActionRaises(thought, collected_data)
       /\ thoughts' = Append(thoughts, thought)
       /\ actions' = Append(actions, [tool |-> tool_name, args |-> tool_args])
       /\ \E o1 \in {o \in (IF Dispatched(tool_name) THEN Outcomes(tool_name) ELSE {NoCall}) :
                          ~Propagates(o)} :
             LET observation == ExecuteTool(tool_name, o1)
                 cd1 == IF tool_name \in tools
                        THEN UpdateCollectedData(collected_data, tool_name, observation)
                        ELSE collected_data
                 fb == /\ tool_name \in tools
                       /\ use_fallback
                       /\ NeedsFallback(tool_name, observation, fallback_attempts)
                 fbcall == fb /\ FallbackDispatched(tool_name)
                 calls1 == IF Dispatched(tool_name)
                           THEN Append(calls, Call(tool_name, "main", o1)) ELSE calls
             IN
             \E o2 \in (IF fbcall THEN Outcomes("RAGQueryTool") ELSE {NoCall}) :
                LET fallback_observation == ExecuteFallback(tool_name, o2)
                    recorded == fb /\ Truthy(fallback_observation)
                    cd2 == IF recorded
                           THEN UpdateCollectedData(cd1, "WebSearchTool",
                                                    AsList(fallback_observation))
                           ELSE cd1
                IN
                /\ observations' =
                      IF recorded
                      THEN Append(Append(observations, observation), fallback_observation)
                      ELSE Append(observations, observation)
                /\ collected_data' = cd2
                /\ fallback_attempts' =
                      IF recorded THEN fallback_attempts + 1 ELSE fallback_attempts
                /\ calls' = IF fbcall
                            THEN Append(calls1, Call("RAGQueryTool", "fallback", o2))
                            ELSE calls1
                /\ IF ShouldStop(cd2)
                   THEN pc' = "returned" /\ iteration' = iteration
                   ELSE pc' = "running" /\ iteration' = iteration + 1
    /\ UNCHANGED <<variant, tools, max_iterations, use_fallback, max_fallback_attempts,
                   wm_parsed_input, parsed_input, runs, mark>>
    /\ UNCHANGED reactVars
    /\ UNCHANGED mainVars
    /\ UNCHANGED memVars

\* The basic variant calls the tool without a try block (its line 65): the
\* thought and the action are appended, the exception of the tool leaves run()
IterationToolRaises ==
    /\ pc = "running"
    /\ iteration < max_iterations
    /\ LET thought   == GenerateThought(parsed_input, collected_data)
           tool_name == ActionTool(thought)
           tool_args == ActionArgs(thought, collected_data, wm_parsed_input)
       IN
       /\ ~DetermineActionRaises(thought, collected_data)
       /\ Dispatched(tool_name)
       /\ thoughts' = Append(thoughts, thought)
       /\ actions' = Append(actions, [tool |-> tool_name, args |-> tool_args])
       /\ \E o1 \in Outcomes(tool_name) :
             /\ Propagates(o1)
             /\ calls' = Append(calls, Call(tool_name, "main", o1))
    /\ pc' = "raised"
    /\ UNCHANGED <<variant, tools, max_iterations, use_fallback, max_fallback_attempts,
                   observations, fallback_attempts, collected_data,
                   wm_parsed_input, parsed_input, iteration, runs, mark>>
    /\ UNCHANGED reactVars
    /\ UNCHANGED mainVars
    /\ UNCHANGED memVars

\* _determine_action raises inside the loop body (line 167): the thought is
\* already appended, nothing catches the exception, run() is left by it
IterationRaises ==
    /\ pc = "running"
    /\ iteration < max_iterations
    /\ LET thought == GenerateThought(parsed_input, collected_data) IN
       /\ DetermineActionRaises(thought, collected_data)
       /\ thoughts' = Append(thoughts, thought)
    /\ pc' = "raised"
    /\ UNCHANGED <<variant, tools, max_iterations, use_fallback, max_fallback_attempts,
                   actions, observations, fallback_attempts, collected_data,
                   wm_parsed_input, parsed_input, iteration, calls, runs, mark>>
    /\ UNCHANGED reactVars
    /\ UNCHANGED mainVars
    /\ UNCHANGED memVars

\* The while condition fails: line 75, then return at line 112
LoopExit ==
    /\ pc = "running"
    /\ iteration >= max_iterations
    /\ pc' = "returned"
    /\ UNCHANGED <<variant, tools, max_iterations, use_fallback, max_fallback_attempts,
                   thoughts, actions, observations, fallback_attempts,
                   collected_data, wm_parsed_input, parsed_input, iteration,
                   calls, runs, mark>>
    /\ UNCHANGED reactVars
    /\ UNCHANGED mainVars
    /\ UNCHANGED memVars

ReactIdle ==
    /\ r_pc = "ready"
    /\ r_iter = 0
    /\ scratchpad = <<>>
    /\ messages = [scratchpad |-> <<>>, user |-> "Begin"]
    /\ text = <<>>
    /\ result = <<>>
    /\ llm_calls = 0
    /\ sleeps = 0
    /\ tool_runs = <<>>
    /\ step = [llm_calls |-> 0, sleeps |-> 0, tool_runs |-> 0, tool_raised |-> FALSE, responded |-> FALSE,
               error |-> <<>>]
    /\ events = 0

\* main() is not involved: run and react_generate_report are called directly
MainIdle ==
    /\ mode = "none"
    /\ m_pc = "running"
    /\ printed = <<>>
    /\ offline_calls = 0

\* WorkingMemory.__init__: the four categories are empty lists
InitialCategories == {"competitors", "funding_data", "web_search_results", "rag_results"}

WorkingMemoryInit ==
    /\ wm_collected_data = [c \in InitialCategories |-> PyList(<<>>)]
    /\ wm_updates = <<>>

Init == LoopInit /\ ReactIdle /\ MainIdle /\ WorkingMemoryInit

Next == RunStart \/ Iteration \/ IterationToolRaises \/ IterationRaises \/ LoopExit

Spec == Init /\ [][Next]_vars

-----------------------------------------------------------------------------
(* Repeated calls of run() on the same instance.  Nothing in run() or in    *)
(* __init__ is re-executed between the calls: the working memory is the one  *)
(* the previous call left.                                                   *)

\* RunAgain with the logs of the previous call cleared
RunAgain_ClearsLogs ==
    /\ pc \in {"returned", "raised"}
    /\ runs < MaxRuns
    /\ \E pi \in ParsedInputs :
          /\ parsed_input' = pi
          /\ wm_parsed_input' = IF variant = "basic" THEN wm_parsed_input ELSE pi
    /\ iteration' = 0
    /\ pc' = "running"
    /\ runs' = runs + 1
    /\ thoughts' = <<>>
    /\ actions' = <<>>
    /\ observations' = <<>>
    /\ mark' = [Marks EXCEPT !.thoughts = 0, !.actions = 0, !.observations = 0]
    /\ UNCHANGED <<variant, tools, max_iterations, use_fallback, max_fallback_attempts,
                   fallback_attempts, collected_data, calls>>
    /\ UNCHANGED reactVars
    /\ UNCHANGED mainVars
    /\ UNCHANGED memVars

\* run(parsed_input) is called again after the previous call returned or
\* raised: lines 70-73
RunAgain ==
    /\ pc \in {"returned", "raised"}
    /\ runs < MaxRuns
    /\ \E pi \in ParsedInputs :
          /\ parsed_input' = pi
          /\ wm_parsed_input' = IF variant = "basic" THEN wm_parsed_input ELSE pi
    /\ iteration' = 0
    /\ pc' = "running"
    /\ runs' = runs + 1
    /\ mark' = Marks
    /\ UNCHANGED <<variant, tools, max_iterations, use_fallback, max_fallback_attempts,
                   thoughts, actions, observations, fallback_attempts,
                   collected_data, calls>>
    /\ UNCHANGED reactVars
    /\ UNCHANGED mainVars
    /\ UNCHANGED memVars

NextRerun ==
    \/ RunStart
    \/ RunAgain
    \/ Iteration
    \/ IterationToolRaises
    \/ IterationRaises
    \/ LoopExit

\* The instances that are run repeatedly: all four tools registered, and an
\* iteration budget of at most two per call
InitRerun ==
    /\ Init
    /\ tools = ToolNames
    /\ max_iterations <= 2

SpecRerun == InitRerun /\ [][NextRerun]_vars

-----------------------------------------------------------------------------
(* Calls of run() on an instance that has completed its research: the first  *)
(* call returned with the stopping predicate true, and the caller runs the   *)
(* same instance again with the same input.                                  *)

\* run on a completed instance with the stopping predicate evaluated at the
\* top of the loop: the call returns without an iteration
RunSettled_StopsFirst ==
    /\ pc = "returned"
    /\ ShouldStop(collected_data)
    /\ runs < 1 + MaxReruns
    /\ parsed_input' = parsed_input
    /\ wm_parsed_input' = IF variant = "basic" THEN wm_parsed_input ELSE parsed_input
    /\ iteration' = 0
    /\ pc' = "returned"
    /\ runs' = runs + 1
    /\ mark' = Marks
    /\ UNCHANGED <<variant, tools, max_iterations, use_fallback, max_fallback_attempts,
                   thoughts, actions, observations, fallback_attempts,
                   collected_data, calls>>
    /\ UNCHANGED reactVars
    /\ UNCHANGED mainVars
    /\ UNCHANGED memVars

\* run(parsed_input) is called on the instance a completed run left: lines
\* 70-73
RunSettled ==
    /\ pc = "returned"
    /\ ShouldStop(collected_data)
    /\ runs < 1 + MaxReruns
    /\ parsed_input' = parsed_input
    /\ wm_parsed_input' = IF variant = "basic" THEN wm_parsed_input ELSE parsed_input
    /\ iteration' = 0
    /\ pc' = "running"
    /\ runs' = runs + 1
    /\ mark' = Marks
    /\ UNCHANGED <<variant, tools, max_iterations, use_fallback, max_fallback_attempts,
                   thoughts, actions, observations, fallback_attempts,
                   collected_data, calls>>
    /\ UNCHANGED reactVars
    /\ UNCHANGED mainVars
    /\ UNCHANGED memVars

NextSettled ==
    \/ RunStart
    \/ RunSettled
    \/ Iteration
    \/ IterationToolRaises
    \/ IterationRaises
    \/ LoopExit

SpecSettled == Init /\ [][NextSettled]_vars

-----------------------------------------------------------------------------
(* Properties of ReasoningLoop.run, checked under Spec *)

\* What the current run has added
RunThoughts == Len(thoughts) - mark.thoughts

RunActions == Len(actions) - mark.actions

RunObservations == Len(observations) - mark.observations

RunCalls == {i \in (mark.calls + 1)..Len(calls) : TRUE}

FallbackCalls == {i \in RunCalls : calls[i].path = "fallback"}

Finished == pc \in {"returned", "raised"}

\* The stopping predicate, as the specification words it
EnoughData ==
    /\ Truthy(collected_data.competitors)
    /\ Truthy(collected_data.funding_data)
    /\ Truthy(collected_data.web_search_results) \/ Truthy(collected_data.rag_results)

Categories == {"competitors", "funding_data", "web_search_results", "rag_results"}

IsErrorObservation(o) ==
    o.kind = "str" /\ Len(o.items) > 0 /\ o.items[1] \in {"Error", "Error:"}

\* C1: a run appends at most max_iterations thoughts and max_iterations
\* actions, and takes at most max_fallback_attempts fallback steps on top of
\* them, so it makes at most max_iterations + max_fallback_attempts tool calls.
C1_BoundedRun ==
    /\ RunThoughts <= max_iterations
    /\ RunActions <= max_iterations
    /\ Cardinality(FallbackCalls) <= max_fallback_attempts
    /\ Cardinality(RunCalls) <= max_iterations + max_fallback_attempts

\* C2: run returns only with the stopping predicate true or the budget used
\* up, and it begins a further iteration only while the predicate is false.
C2_StoppingCorrectness ==
    /\ iteration <= max_iterations
    /\ pc = "returned" => EnoughData \/ iteration = max_iterations
    /\ pc = "running" /\ iteration > 0 => ~EnoughData
    /\ pc = "returned" /\ EnoughData => iteration < max_iterations

C2_StoppedEarly ==
    /\ pc = "returned"
    /\ EnoughData
    /\ iteration + 1 < max_iterations
    /\ RunActions = iteration + 1

\* C3: whatever the tools raise, no exception leaves run.
C3_NoThrow == pc # "raised"

\* C4: when every tool call raises, the run makes all max_iterations
\* iterations and returns with the four categories empty and exactly
\* max_iterations error observations.
AllCallsRaised == RunCalls # {} /\ \A i \in RunCalls : calls[i].raises

C4_AllToolsFail ==
    (Finished /\ AllCallsRaised) =>
        /\ pc = "returned"
        /\ RunActions = max_iterations
        /\ \A c \in Categories : ~Truthy(collected_data[c])
        /\ RunObservations = max_iterations
        /\ \A i \in (mark.observations + 1)..Len(observations) :
              IsErrorObservation(observations[i])

\* C5: a category that is non-empty stays non-empty in every later state.
C5_ProgressMonotone ==
    [][\A c \in Categories :
          Truthy(collected_data[c]) => Truthy(collected_data'[c])]_vars

\* C6: a run never issues more than max_fallback_attempts fallback tool
\* calls, and never records more than that many.
C6_FallbackBounded ==
    /\ Cardinality(FallbackCalls) <= max_fallback_attempts
    /\ fallback_attempts - mark.fallback_attempts <= max_fallback_attempts

\* C7 (Scenario A, with the input the scenario names): when every tool call
\* returns a non-empty result, the run selects CompetitorFinder,
\* FundingRetriever and WebSearchTool in that order, returns after exactly
\* these three iterations, and fallback_attempts is 0.
AllCallsNonEmpty ==
    \A i \in RunCalls : ~calls[i].raises /\ Truthy(calls[i].value)

ScenarioA ==
    /\ pc # "ready"
    /\ parsed_input = ScenarioInput
    /\ tools = ToolNames
    /\ max_iterations >= 3
    /\ AllCallsNonEmpty

PriorityOrder == <<"CompetitorFinder", "FundingRetriever", "WebSearchTool">>

C7_ScenarioA ==
    ScenarioA =>
        /\ pc # "raised"
        /\ RunActions <= 3
        /\ \A i \in 1..RunActions : actions[mark.actions + i].tool = PriorityOrder[i]
        /\ pc = "running" => RunActions = iteration /\ iteration < 3
        /\ pc = "returned" => RunActions = 3 /\ RunThoughts = 3 /\ EnoughData
        /\ fallback_attempts = 0
        /\ Cardinality(FallbackCalls) = 0

C7_ScenarioADone == ScenarioA /\ pc = "returned" /\ RunActions = 3

\* C8 (Scenario B): WebSearchTool always returns an empty list, RAGQueryTool
\* returns one hit, max_fallback_attempts is 2; once competitors and funding
\* are found, the run makes exactly one fallback call and returns with
\* rag_results populated and web_search_results empty.
ScenarioB ==
    /\ pc = "returned"
    /\ parsed_input = ScenarioInput
    /\ tools = ToolNames
    /\ use_fallback
    /\ max_fallback_attempts = 2
    /\ max_iterations >= 3
    /\ \A i \in RunCalls :
          CASE calls[i].tool = "WebSearchTool" ->
                  ~calls[i].raises /\ calls[i].value = PyList(<<>>)
            [] calls[i].tool = "RAGQueryTool" ->
                  ~calls[i].raises /\ calls[i].value = PyList(<<"passage">>)
            [] OTHER -> ~calls[i].raises /\ Truthy(calls[i].value)

C8_ScenarioB ==
    ScenarioB =>
        /\ Cardinality(FallbackCalls) = 1
        /\ Truthy(collected_data.rag_results)
        /\ ~Truthy(collected_data.web_search_results)

\* C10: at the end of every iteration the observations log holds exactly one
\* observation per recorded action.
C10_OneObservationPerAction ==
    pc \in {"running", "returned"} => Len(observations) = Len(actions)

\* The tool of the first empty category in the order competitors, funding,
\* web results, retrieval; NoOp when no category is empty
FirstGapTool(cd) ==
    IF ~Truthy(cd.competitors) THEN "CompetitorFinder"
    ELSE IF ~Truthy(cd.funding_data) THEN "FundingRetriever"
    ELSE IF ~Truthy(cd.web_search_results) THEN "WebSearchTool"
    ELSE IF ~Truthy(cd.rag_results) THEN "RAGQueryTool"
    ELSE "NoOp"

\* C11: for every parsed input and every state of the working memory, the
\* tool an iteration selects is the tool of the first empty category in the
\* fixed priority order, whatever the domain string is.
C11_PrioritySelection ==
    [][Len(actions') = Len(actions) + 1 =>
          actions'[Len(actions')].tool = FirstGapTool(collected_data)]_vars

\* C16, as stated: no two consecutive main iterations of a run record
\* actions with the same tool name and the same arguments.
C16_NoRepeatedToolCall ==
    \A i \in (mark.actions + 1)..(Len(actions) - 1) : actions[i] # actions[i + 1]

\* C16, amended: a ToolCall is never retried within an iteration.  An
\* iteration invokes the tool of its recorded action at most once; the only
\* further invocation in the iteration is the fallback, which calls a
\* different tool (RAGQueryTool) after WebSearchTool returned an empty list.
\* (A gap that stays open is attempted again by the next iteration.)
C16_NoRetryInIteration ==
    [][LET n     == Len(calls)
           added == Len(calls') - n
       IN  /\ added \in {0, 1, 2}
           /\ added >= 1 =>
                 /\ Len(actions') = Len(actions) + 1
                 /\ calls'[n + 1].path = "main"
                 /\ calls'[n + 1].tool = actions'[Len(actions')].tool
           /\ added = 2 =>
                 /\ calls'[n + 1].tool = "WebSearchTool"
                 /\ ~calls'[n + 1].raises
                 /\ calls'[n + 1].value = PyList(<<>>)
                 /\ calls'[n + 2].path = "fallback"
                 /\ calls'[n + 2].tool = "RAGQueryTool"
                 /\ calls'[n + 2].tool # calls'[n + 1].tool]_vars

\* The same ToolCall in two consecutive iterations, and a fallback call
C16_AttemptedAgain ==
    /\ \E i \in (mark.actions + 1)..(Len(actions) - 1) : actions[i] = actions[i + 1]
    /\ FallbackCalls # {}

\* C17: a tool-level error observation leaves the gap open: no category of
\* collected_data ever holds an error observation, so after a failed tool
\* call the category of the tool is still empty.
C17_ErrorLeavesGapOpen ==
    \A c \in Categories : ~IsErrorObservation(collected_data[c])

\* C18: an iteration whose selected tool is absent from the tools mapping
\* appends the observation "Error: Tool '<name>' not found", invokes no tool,
\* leaves collected_data and fallback_attempts unchanged, and does not abort
\* the run: the loop goes on to its next iteration (or stops because the
\* data were already sufficient).
C18_ToolNotFound ==
    [][(Len(actions') = Len(actions) + 1 /\ actions'[Len(actions')].tool \notin tools) =>
          /\ observations' =
                Append(observations, ErrorNotFound(actions'[Len(actions')].tool))
          /\ calls' = calls
          /\ collected_data' = collected_data
          /\ fallback_attempts' = fallback_attempts
          /\ \/ pc' = "running" /\ iteration' = iteration + 1
             \/ pc' = "returned" /\ iteration' = iteration /\ EnoughData]_vars

C18_NotFoundRecorded ==
    /\ pc = "running"
    /\ iteration >= 2
    /\ "FundingRetriever" \notin tools
    /\ actions[Len(actions)].tool = "FundingRetriever"
    /\ observations[Len(observations)] = ErrorNotFound("FundingRetriever")
    /\ Truthy(collected_data.competitors)
    /\ ~Truthy(collected_data.funding_data)
    /\ Len(calls) = 1

\* C19: every fallback tool invocation increments fallback_attempts by
\* exactly one, and none changes the main iteration count: the counter equals
\* the number of fallback invocations of the run, and the iteration counter
\* equals the number of main iterations made.
C19_SeparateCounter ==
    /\ fallback_attempts - mark.fallback_attempts = Cardinality(FallbackCalls)
    /\ pc = "running" => RunActions = iteration

\* s is an initial segment of t
IsPrefix(s, t) == Len(s) <= Len(t) /\ SubSeq(t, 1, Len(s)) = s

\* C20: the thoughts, actions and observations logs are append-only: every
\* step of run, in a first call or in a repeated call on the same instance,
\* leaves every recorded entry in place and unmodified and only adds entries
\* at the end.
C20_AppendOnlyLogs ==
    [][/\ IsPrefix(thoughts, thoughts')
       /\ IsPrefix(actions, actions')
       /\ IsPrefix(observations, observations')]_vars

\* A second call of run has added to the logs the first call left
C20_SecondRunAppended ==
    /\ runs = 2
    /\ mark.thoughts > 0
    /\ mark.actions > 0
    /\ mark.observations > 0
    /\ RunThoughts > 0
    /\ RunActions > 0
    /\ RunObservations > RunActions

\* C21: in both variants the arguments of every recorded ToolCall come from
\* the parsed input passed to run and from the data already collected: a
\* CompetitorFinder call carries the input's domain and key_features, a
\* WebSearchTool or RAGQueryTool query contains the input's domain, and a
\* FundingRetriever call carries the names of the competitors in
\* collected_data, in order.
C21_ArgsFromInput ==
    [][Len(actions') = Len(actions) + 1 =>
          LET a == actions'[Len(actions')] IN
          /\ a.tool = "CompetitorFinder" =>
                /\ a.args.domain = parsed_input.domain
                /\ a.args.features = parsed_input.key_features
          /\ a.tool \in {"WebSearchTool", "RAGQueryTool"} =>
                Contains(a.args.query, parsed_input.domain)
          /\ a.tool = "FundingRetriever" =>
                a.args.companies = collected_data.competitors.items]_vars

\* C22: whenever the loop selects the no-op action, the observation recorded
\* for it is an empty success and not an error observation.
C22_NoOpEmptySuccess ==
    [][(Len(actions') = Len(actions) + 1 /\ actions'[Len(actions')].tool = "NoOp") =>
          /\ Len(observations') = Len(observations) + 1
          /\ ~IsErrorObservation(observations'[Len(observations')])
          /\ ~Truthy(observations'[Len(observations')])]_vars

\* No tool call of the run raised: every tool returned a payload
AllCallsReturned == \A i \in RunCalls : ~calls[i].raises

\* C25: in a run on a fresh instance whose tools return list, dict or string
\* payloads, the main action path never selects RAGQueryTool or NoOp,
\* RAGQueryTool is called on the fallback path only, and rag_results stays
\* empty.
C25_NoRagOnMainPath ==
    AllCallsReturned =>
        /\ \A i \in 1..Len(actions) : actions[i].tool \notin {"RAGQueryTool", "NoOp"}
        /\ \A i \in RunCalls : calls[i].tool = "RAGQueryTool" => calls[i].path = "fallback"
        /\ collected_data.rag_results.items = <<>>

\* A run that went through the fallback and stopped on enough data
C25_RagViaFallbackOnly ==
    /\ pc = "returned"
    /\ AllCallsReturned
    /\ ShouldStop(collected_data)
    /\ \E i \in RunCalls : calls[i].tool = "RAGQueryTool" /\ calls[i].path = "fallback"
    /\ Truthy(collected_data.web_search_results)

\* C26: at the end of every iteration of a run on a fresh instance the logs
\* satisfy len(thoughts) = len(actions), len(observations) = len(actions) +
\* fallback_attempts and 0 <= fallback_attempts <= max_fallback_attempts.
C26_LogLengths ==
    pc \in {"running", "returned"} =>
        /\ Len(thoughts) = Len(actions)
        /\ Len(observations) = Len(actions) + fallback_attempts
        /\ 0 <= fallback_attempts
        /\ fallback_attempts <= max_fallback_attempts

\* A run that recorded as many fallback observations as it may
C26_FallbackRecorded ==
    /\ pc = "returned"
    /\ max_fallback_attempts = 1
    /\ fallback_attempts = 1
    /\ Len(actions) >= 3
    /\ Len(observations) = Len(actions) + 1

\* C27: run does not reset working memory and evaluates the stopping
\* predicate only after an iteration's action: with max_iterations >= 1, a
\* run on an instance whose collected data already satisfies the stopping
\* predicate appends exactly one thought, one action and one observation
\* before it returns, and the logs of the earlier run are kept.
C27_OneIterationWhenSettled ==
    [][/\ IsPrefix(thoughts, thoughts')
       /\ IsPrefix(actions, actions')
       /\ IsPrefix(observations, observations')
       /\ (runs' = runs + 1 /\ runs >= 1) =>
             /\ ShouldStop(collected_data)
             /\ thoughts' = thoughts
             /\ actions' = actions
             /\ observations' = observations
             /\ collected_data' = collected_data
       /\ (pc' = "returned" /\ runs' >= 2 /\ max_iterations >= 1) =>
             /\ RunThoughts' = 1
             /\ RunActions' = 1
             /\ RunObservations' = 1]_vars

\* A second run on a completed instance made one iteration and returned
C27_SecondRunOneIteration ==
    /\ pc = "returned"
    /\ runs = 2
    /\ max_iterations >= 1
    /\ mark.thoughts >= 3
    /\ Len(thoughts) = mark.thoughts + 1
    /\ Len(actions) = mark.actions + 1
    /\ Len(observations) = mark.observations + 1
    /\ ShouldStop(collected_data)

\* The thought that asks for a retrieval query
IsRetrievalThought(thought) == Contains(Lower(thought), <<"query", "the", "rag">>)

\* C28: in the variant without fallback, under every sequence of run calls
\* and tool results, RAGQueryTool is never invoked and rag_results stays
\* empty: the thought that asks for a retrieval query is mapped to NoOp, and
\* NoOp is recorded as a tool-not-found error observation.
C28_BasicNeverQueriesRag ==
    variant = "basic" =>
        /\ \A i \in 1..Len(calls) : calls[i].tool # "RAGQueryTool"
        /\ \A i \in 1..Len(actions) : actions[i].tool # "RAGQueryTool"
        /\ collected_data.rag_results.items = <<>>
        /\ \A i \in 1..Len(actions) :
              IsRetrievalThought(thoughts[i]) =>
                  /\ actions[i].tool = "NoOp"
                  /\ i <= Len(observations) =>
                        /\ observations[i] = ErrorNotFound("NoOp")
                        /\ IsErrorObservation(observations[i])

\* The retrieval thought of a further run was recorded as a NoOp that was
\* not found
C28_RetrievalThoughtIsNoOp ==
    /\ variant = "basic"
    /\ "RAGQueryTool" \in tools
    /\ pc = "returned"
    /\ runs = 2
    /\ IsRetrievalThought(thoughts[Len(thoughts)])
    /\ actions[Len(actions)].tool = "NoOp"
    /\ observations[Len(observations)] = ErrorNotFound("NoOp")

-----------------------------------------------------------------------------
(* react_generate_report, Market_survey/main.py.                             *)
(* A text is a sequence of tokens: the markers "Final Answer:", "Action:"   *)
(* and "Action Input:", a blank " ", a line break "\n", or a word without   *)
(* white space.                                                             *)

FinalMarker == "Final Answer:"

ActionMarker == "Action:"

InputMarker == "Action Input:"

SP == " "

NL == "\n"

\* \s
IsSpace(t) == t \in {SP, NL}

\* str.strip()
Strip(s) ==
    LET keep == {i \in 1..Len(s) : ~IsSpace(s[i])} IN
    IF keep = {} THEN <<>>
    ELSE SubSeq(s, CHOOSE i \in keep : \A j \in keep : i <= j,
                   CHOOSE i \in keep : \A j \in keep : j <= i)

\* Index of the leftmost occurrence of a marker, 0 when there is none
Find(s, marker) ==
    LET at == {i \in 1..Len(s) : s[i] = marker} IN
    IF at = {} THEN 0 ELSE CHOOSE i \in at : \A j \in at : i <= j

Rest(s, i) == SubSeq(s, i + 1, Len(s))

\* re.search(r"<marker>\s*(.+)", text, re.DOTALL): the marker needs one
\* character after it, of any kind
MatchDotAll(s, marker) == Find(s, marker) > 0 /\ Find(s, marker) < Len(s)

\* .group(1).strip() of that match
GroupDotAll(s, marker) == Strip(Rest(s, Find(s, marker)))

\* re.search(r"Action\s*:\s*(.+)", text): without DOTALL the group needs one
\* character that is no line break, and ends at the end of its line
MatchLine(s, marker) ==
    /\ Find(s, marker) > 0
    /\ \E i \in (Find(s, marker) + 1)..Len(s) : s[i] # NL

GroupLine(s, marker) ==
    LET rest  == Rest(s, Find(s, marker))
        solid == {i \in 1..Len(rest) : ~IsSpace(rest[i])}
        first == CHOOSE i \in solid : \A j \in solid : i <= j
        ends  == {i \in first..Len(rest) : rest[i] = NL}
        last  == IF ends = {} THEN Len(rest)
                 ELSE (CHOOSE i \in ends : \A j \in ends : i <= j) - 1
    IN  IF solid = {} THEN <<>> ELSE Strip(SubSeq(rest, first, last))

\* _extract_action_and_input looking for the Action / Action Input pair
\* before the final-answer marker
ExtractActionAndInput_ActionFirst(s) ==
    IF MatchLine(s, ActionMarker) /\ MatchDotAll(s, InputMarker)
    THEN <<GroupLine(s, ActionMarker), GroupDotAll(s, InputMarker)>>
    ELSE IF MatchDotAll(s, FinalMarker) THEN <<<<>>, GroupDotAll(s, FinalMarker)>>
    ELSE <<<<>>, <<>>>>

\* _extract_action_and_input taking an Action line without an Action Input
\* for an action with empty input
ExtractActionAndInput_ActionAlone(s) ==
    IF MatchDotAll(s, FinalMarker) THEN <<<<>>, GroupDotAll(s, FinalMarker)>>
    ELSE IF MatchLine(s, ActionMarker)
    THEN <<GroupLine(s, ActionMarker),
           IF MatchDotAll(s, InputMarker) THEN GroupDotAll(s, InputMarker) ELSE <<>>>>
    ELSE <<<<>>, <<>>>>

\* _extract_action_and_input: <<action_name, action_input>>
ExtractActionAndInput(s) ==
    IF MatchDotAll(s, FinalMarker) THEN <<<<>>, GroupDotAll(s, FinalMarker)>>
    ELSE IF MatchLine(s, ActionMarker) /\ MatchDotAll(s, InputMarker)
    THEN <<GroupLine(s, ActionMarker), GroupDotAll(s, InputMarker)>>
    ELSE <<<<>>, <<>>>>

\* _normalize_action_input: the "query" of a JSON object, else the stripped text
JsonQuery == "{\"query\": \"q\"}"

NormalizeActionInput(action_input) ==
    IF action_input = <<JsonQuery>> THEN <<"q">> ELSE Strip(action_input)

\* _tool_registry().keys()
Allowed == {"startup_search", "competitor_finder", "funding_retriever", "news_search"}

\* IsAllowed with every one-word tool name let through
IsAllowed_AnyName(action) == Len(action) = 1

\* `action not in allowed`, for the string action
IsAllowed(action) == Len(action) = 1 /\ action[1] \in Allowed

\* range(12)
ReactIterations == 12

CannedMessage == <<"Final", SP, "Answer:", SP, "Iteration", SP, "limit", SP, "reached">>

\* What the model replies when it just chats on
PlainText == <<"Thought:", SP, "thinking">>

\* The model responses of the environment
Texts ==
    { PlainText,
      <<"Thought:", SP, "done", NL, FinalMarker, SP, "the", SP, "report">>,
      <<ActionMarker, SP, "news_search", NL, InputMarker, SP, "fintech">>,
      <<ActionMarker, SP, "news_search", NL, InputMarker, SP, JsonQuery>>,
      <<ActionMarker, SP, "web_browser", NL, InputMarker, SP, "fintech">>,
      <<ActionMarker, SP, "news_search", NL, InputMarker, SP, "fintech", NL, FinalMarker, SP, "report">>,
      <<ActionMarker, SP, "news_search", NL, InputMarker, SP, "fintech", NL, FinalMarker>>,
      <<FinalMarker, NL>>,
      <<ActionMarker, SP, "news_search">>,
      <<InputMarker, SP, "fintech", NL, ActionMarker, SP>>,
      <<FinalMarker, SP, FinalMarker, SP, "Iteration", SP, "limit", SP, "hit">> }

\* What llm.invoke can do: respond, or raise with a message
\* What llm.invoke raises when it does not respond: str(e), as words
RateLimited == [raises |-> TRUE, msg |-> <<"Error", "code:", "429">>]

Throttled == [raises |-> TRUE, msg |-> <<"Rate", "limit", "reached">>]

Fails == [raises |-> TRUE, msg |-> <<"Connection", "reset">>]

Overloaded == [raises |-> TRUE, msg |-> <<"rate", "limit", "exceeded">>]

LlmErrors == {RateLimited, Throttled, Fails, Overloaded}

\* IsRateLimit recognising the status code only
IsRateLimit_CodeOnly(msg) == Contains(msg, <<"429">>)

\* `"Rate limit" in msg or "429" in msg`
IsRateLimit(msg) == Contains(msg, <<"Rate", "limit">>) \/ Contains(msg, <<"429">>)

Refresh(pad, user) == [scratchpad |-> pad, user |-> user]

Entry(kind, body) == [kind |-> kind, body |-> body]

ToolOutput == <<"[{\"title\": \"news\"}]">>

ToolFailure == <<"{\"error\": \"Tool execution failed: boom\"}">>

\* registry[action].run(tool_arg) with an exception taken for an ordinary
\* output
RunTool_ErrorDropped(tool_raises) == ToolOutput

\* registry[action].run(tool_arg) inside its try/except: the output, or the
\* error text built from the exception
RunTool(tool_raises) == IF tool_raises THEN ToolFailure ELSE ToolOutput

\* The call react_generate_report(llm, input_json_str): lines 92-109
ReactStart ==
    /\ r_pc = "ready"
    /\ r_pc' = "loop"
    /\ UNCHANGED <<r_iter, scratchpad, messages, text, result, llm_calls,
                   sleeps, tool_runs, step, events>>
    /\ UNCHANGED loopVars
    /\ UNCHANGED mainVars
    /\ UNCHANGED memVars

\* What one pass does once the model has responded with t: lines 132-179.
\* used: model calls made, slept: sleeps made in this pass, err: str(e) of the
\* exception the first model call raised (empty when it responded)
Respond(t, used, slept, err, tool_raises) ==
    LET action       == ExtractActionAndInput(t)[1]
        action_input == ExtractActionAndInput(t)[2]
        tool_arg     == NormalizeActionInput(action_input)
        output       == RunTool(tool_raises)
        done(n)      == [llm_calls |-> used, sleeps |-> slept, tool_runs |-> n,
                         tool_raised |-> (n = 1 /\ tool_raises),
                         responded |-> TRUE, error |-> err]
    IN
    /\ text' = t
    /\ llm_calls' = llm_calls + used
    /\ sleeps' = sleeps + slept
    /\ IF action = <<>> /\ action_input # <<>>
       THEN /\ result' = action_input
            /\ r_pc' = "returned"
            /\ step' = done(0)
            /\ UNCHANGED <<r_iter, scratchpad, messages, tool_runs>>
       ELSE IF action = <<>>
       THEN /\ scratchpad' = Append(scratchpad, Entry("text", t))
            /\ messages' = Refresh(scratchpad', "Continue. Output Thought, Action, Action Input.")
            /\ r_iter' = r_iter + 1
            /\ step' = done(0)
            /\ UNCHANGED <<r_pc, result, tool_runs>>
       ELSE IF ~IsAllowed(action)
       THEN /\ scratchpad' = Append(scratchpad, Entry("Observation: Disallowed tool", action))
            /\ messages' = Refresh(scratchpad', "Tool not allowed. Re-plan. Output Thought, Action, Action Input.")
            /\ r_iter' = r_iter + 1
            /\ step' = done(0)
            /\ UNCHANGED <<r_pc, result, tool_runs>>
       ELSE /\ tool_runs' = Append(tool_runs, [tool |-> action[1], arg |-> tool_arg])
            /\ scratchpad' = Append(scratchpad, Entry("Observation", output))
            /\ messages' = Refresh(scratchpad', "Continue. Output Thought, Action, Action Input or Final Answer.")
            /\ r_iter' = r_iter + 1
            /\ step' = done(1)
            /\ UNCHANGED <<r_pc, result>>

\* Whether the pass that gets response t runs a tool
RunsTool(t) ==
    /\ ExtractActionAndInput(t)[1] # <<>>
    /\ IsAllowed(ExtractActionAndInput(t)[1])

ToolRaises(t) == IF RunsTool(t) THEN BOOLEAN ELSE {FALSE}

\* A pass in which the model chats on: the response has no marker
ReactChat ==
    /\ r_pc = "loop"
    /\ r_iter < ReactIterations
    /\ Respond(PlainText, 1, 0, <<>>, FALSE)
    /\ UNCHANGED events
    /\ UNCHANGED loopVars
    /\ UNCHANGED mainVars
    /\ UNCHANGED memVars

\* A pass whose first llm.invoke responds: lines 113-114, 132-179
ReactRespond ==
    /\ r_pc = "loop"
    /\ r_iter < ReactIterations
    /\ events < MaxEvents
    /\ \E t \in Texts \ {PlainText} : \E tr \in ToolRaises(t) : Respond(t, 1, 0, <<>>, tr)
    /\ events' = events + 1
    /\ UNCHANGED loopVars
    /\ UNCHANGED mainVars
    /\ UNCHANGED memVars

\* A pass whose first llm.invoke raises a rate-limit error and whose retry
\* responds: lines 115-120, 132-179
ReactRetry ==
    /\ r_pc = "loop"
    /\ r_iter < ReactIterations
    /\ events < MaxEvents
    /\ \E e \in LlmErrors :
          /\ IsRateLimit(e.msg)
          /\ \E t \in Texts : \E tr \in ToolRaises(t) : Respond(t, 2, 1, e.msg, tr)
    /\ events' = events + 1
    /\ UNCHANGED loopVars
    /\ UNCHANGED mainVars
    /\ UNCHANGED memVars

\* A pass whose first llm.invoke raises a rate-limit error and whose retry
\* raises too: line 120 is inside the except block, nothing catches it
ReactRetryRaises ==
    /\ r_pc = "loop"
    /\ r_iter < ReactIterations
    /\ events < MaxEvents
    /\ \E e \in LlmErrors :
          /\ IsRateLimit(e.msg)
          /\ step' = [llm_calls |-> 2, sleeps |-> 1, tool_runs |-> 0,
                      tool_raised |-> FALSE, responded |-> FALSE, error |-> e.msg]
    /\ r_pc' = "raised"
    /\ llm_calls' = llm_calls + 2
    /\ sleeps' = sleeps + 1
    /\ events' = events + 1
    /\ UNCHANGED <<r_iter, scratchpad, messages, text, result, tool_runs>>
    /\ UNCHANGED loopVars
    /\ UNCHANGED mainVars
    /\ UNCHANGED memVars

\* A pass whose first llm.invoke raises any other error: lines 121-131
ReactLlmError ==
    /\ r_pc = "loop"
    /\ r_iter < ReactIterations
    /\ events < MaxEvents
    /\ \E e \in LlmErrors :
          /\ ~IsRateLimit(e.msg)
          /\ scratchpad' = Append(scratchpad, Entry("Observation: LLM error", e.msg))
          /\ step' = [llm_calls |-> 1, sleeps |-> 0, tool_runs |-> 0,
                      tool_raised |-> FALSE, responded |-> FALSE, error |-> e.msg]
    /\ messages' = Refresh(scratchpad', "Continue. Output Thought, Action, Action Input or Final Answer.")
    /\ r_iter' = r_iter + 1
    /\ llm_calls' = llm_calls + 1
    /\ events' = events + 1
    /\ UNCHANGED <<r_pc, text, result, sleeps, tool_runs>>
    /\ UNCHANGED loopVars
    /\ UNCHANGED mainVars
    /\ UNCHANGED memVars

\* The for loop is exhausted: line 182
ReactLimit ==
    /\ r_pc = "loop"
    /\ r_iter >= ReactIterations
    /\ result' = CannedMessage
    /\ r_pc' = "returned"
    /\ UNCHANGED <<r_iter, scratchpad, messages, text, llm_calls, sleeps,
                   tool_runs, step, events>>
    /\ UNCHANGED loopVars
    /\ UNCHANGED mainVars
    /\ UNCHANGED memVars

\* The rule-based loop is not running while the LLM-driven one is observed
LoopIdle ==
    /\ LoopInit
    /\ variant = "fallback"
    /\ tools = ToolNames
    /\ max_iterations = 1
    /\ use_fallback = TRUE
    /\ max_fallback_attempts = 0

InitReact == LoopIdle /\ ReactIdle /\ MainIdle /\ WorkingMemoryInit

NextReact ==
    \/ ReactStart
    \/ ReactChat
    \/ ReactRespond
    \/ ReactRetry
    \/ ReactRetryRaises
    \/ ReactLlmError
    \/ ReactLimit

SpecReact == InitReact /\ [][NextReact]_vars

-----------------------------------------------------------------------------
(* main() of Market_survey/main.py in its three non-interactive modes *)

Modes == {"idea_json", "idea", "name"}

\* The characters of a text, with the final-answer marker spelled out
RECURSIVE Spell(_)
Spell(s) ==
    IF s = <<>> THEN <<>>
    ELSE (IF Head(s) = FinalMarker THEN <<"Final", SP, "Answer:">> ELSE <<Head(s)>>)
         \o Spell(Tail(s))

\* str.startswith
StartsWith(s, prefix) ==
    Len(Spell(s)) >= Len(Spell(prefix))
    /\ SubSeq(Spell(s), 1, Len(Spell(prefix))) = Spell(prefix)

\* "Final Answer: Iteration limit"
LimitPrefix == <<"Final", SP, "Answer:", SP, "Iteration", SP, "limit">>

\* What offline_generate_report returns
OfflineReport == <<"##", SP, "Final", SP, "Recommendation">>

\* parser.parse_args() and build_llm(): lines 327-333
MainStart ==
    /\ mode \in Modes
    /\ m_pc = "running"
    /\ printed = <<>>
    /\ offline_calls = 0

\* react_generate_report has returned to main(): lines 337-341, 346-353 and
\* 365-369
MainReport ==
    /\ mode \in Modes
    /\ m_pc = "running"
    /\ r_pc = "returned"
    /\ IF mode = "idea" /\ StartsWith(result, LimitPrefix)
       THEN /\ printed' = OfflineReport
            /\ offline_calls' = offline_calls + 1
       ELSE /\ printed' = result
            /\ UNCHANGED offline_calls
    /\ m_pc' = "done"
    /\ UNCHANGED mode
    /\ UNCHANGED loopVars
    /\ UNCHANGED reactVars
    /\ UNCHANGED memVars

InitMain == LoopIdle /\ ReactIdle /\ MainStart /\ WorkingMemoryInit

NextMain ==
    \/ ReactStart
    \/ ReactChat
    \/ ReactRespond
    \/ ReactRetry
    \/ ReactRetryRaises
    \/ ReactLlmError
    \/ ReactLimit
    \/ MainReport

SpecMain == InitMain /\ [][NextMain]_vars

-----------------------------------------------------------------------------
(* WorkingMemory.update_collected_data *)

\* data_type arguments: two of the categories __init__ creates, and one it
\* does not
DataTypes == {"competitors", "funding_data", "notes"}

\* data arguments: lists of strings, a string, the empty string
Payloads ==
    { PyList(<<>>), PyList(<<"a">>), PyList(<<"b", "a">>),
      PyStr(<<"a">>), PyStr(<<>>) }

\* A one-word string as the element of a list
Element(data) == IF data.items = <<>> THEN "" ELSE data.items[1]

\* update_collected_data with the assignment in every branch
update_collected_data_Replaces(cd, data_type, data) ==
    [k \in DOMAIN cd \cup {data_type} |-> IF k = data_type THEN data ELSE cd[k]]

\* update_collected_data: self.collected_data after the call
update_collected_data(cd, data_type, data) ==
    IF data_type \in DOMAIN cd
    THEN IF IsList(cd[data_type])
         THEN IF IsList(data)
              THEN [cd EXCEPT ![data_type] = PyList(@.items \o data.items)]
              ELSE [cd EXCEPT ![data_type] = PyList(Append(@.items, Element(data)))]
         ELSE [cd EXCEPT ![data_type] = data]
    ELSE [k \in DOMAIN cd \cup {data_type} |-> IF k = data_type THEN data ELSE cd[k]]

\* One call memory.update_collected_data(data_type, data)
MemoryUpdate ==
    /\ Len(wm_updates) < MaxUpdates
    /\ \E data_type \in DataTypes, data \in Payloads :
          /\ wm_collected_data' = update_collected_data(wm_collected_data, data_type, data)
          /\ wm_updates' = Append(wm_updates, [data_type |-> data_type, data |-> data])
    /\ UNCHANGED loopVars
    /\ UNCHANGED reactVars
    /\ UNCHANGED mainVars

InitMemory == LoopIdle /\ ReactIdle /\ MainIdle /\ WorkingMemoryInit

NextMemory == MemoryUpdate

SpecMemory == InitMemory /\ [][NextMemory]_vars

-----------------------------------------------------------------------------
(* Properties of react_generate_report, checked under SpecReact *)

HasMarker(t, marker) == \E i \in 1..Len(t) : t[i] = marker

\* The marker is followed by some text that is not white space
HasFinalAnswer(t) ==
    \E i \in 1..Len(t) : t[i] = FinalMarker /\ \E j \in (i + 1)..Len(t) : ~IsSpace(t[j])

\* The text after the first final-answer marker, without the white space
\* around it
FinalAnswerOf(t) ==
    LET i == CHOOSE k \in 1..Len(t) :
                t[k] = FinalMarker /\ \A j \in 1..(k - 1) : t[j] # FinalMarker
    IN  Strip(SubSeq(t, i + 1, Len(t)))

\* C9, as stated: a model output that contains the final-answer marker makes
\* the function return in that pass, and no tool is executed in the pass.
C9_AnyFinalMarker ==
    (r_pc # "ready" /\ HasMarker(text, FinalMarker)) =>
        r_pc = "returned" /\ step.tool_runs = 0

\* C9, amended: a model output that contains the final-answer marker followed
\* by text that is not white space, with or without an Action / Action Input
\* pair, makes the function return the text after the marker in that pass;
\* no tool is executed in the pass, and none at all when it is the first
\* output.
C9_FinalAnswerFirst ==
    (r_pc # "ready" /\ HasFinalAnswer(text)) =>
        /\ r_pc = "returned"
        /\ result = FinalAnswerOf(text)
        /\ step.tool_runs = 0
        /\ r_iter = 0 => tool_runs = <<>>

C9_FinalBesideAction ==
    /\ r_pc = "returned"
    /\ HasFinalAnswer(text)
    /\ HasMarker(text, ActionMarker)
    /\ HasMarker(text, InputMarker)
    /\ result = <<"report">>
    /\ r_iter = 0
    /\ tool_runs = <<>>

\* The response names a tool, and the tool is not in the registry
NamesDisallowed(t) ==
    /\ ExtractActionAndInput(t)[1] # <<>>
    /\ ~IsAllowed(ExtractActionAndInput(t)[1])

LastEntry == scratchpad[Len(scratchpad)]

\* C12: no tool outside the registry is ever executed; a pass whose response
\* names such a tool appends a "Disallowed tool" observation to the
\* scratchpad, runs no tool, and leaves the function in its loop with the
\* refreshed prompt (after the twelfth pass the loop ends with the canned
\* message).
C12_WhitelistEnforced ==
    /\ \A i \in 1..Len(tool_runs) : tool_runs[i].tool \in Allowed
    /\ (step.responded /\ NamesDisallowed(text)) =>
          /\ step.tool_runs = 0
          /\ scratchpad # <<>>
          /\ LastEntry = Entry("Observation: Disallowed tool", ExtractActionAndInput(text)[1])
          /\ messages.scratchpad = scratchpad
          /\ r_iter > 0
          /\ \/ r_pc = "loop"
             \/ r_pc = "returned" /\ r_iter = ReactIterations /\ result = CannedMessage

C12_Rejected ==
    /\ r_pc = "loop"
    /\ step.responded
    /\ ExtractActionAndInput(text)[1] = <<"web_browser">>
    /\ LastEntry.kind = "Observation: Disallowed tool"
    /\ tool_runs = <<>>
    /\ r_iter < ReactIterations

\* C13: whatever the model calls and the tools do (a failure of the retry
\* that follows a rate-limit failure included), react_generate_report returns
\* a string and no exception leaves it.
C13_NeverRaises == r_pc # "raised"

\* The pass returns its response as the final answer: line 136
YieldsFinalAnswer(t) ==
    ExtractActionAndInput(t)[1] = <<>> /\ ExtractActionAndInput(t)[2] # <<>>

ReactFinished == r_pc \in {"returned", "raised"}

\* C14: the function makes at most 12 passes, at most 12 tool executions and
\* at most 2 model calls per pass, and when no model output yields a final
\* answer it returns the canned iteration-limit message.
C14_IterationBudget ==
    /\ r_iter <= ReactIterations
    /\ Len(tool_runs) <= ReactIterations
    /\ step.llm_calls <= 2
    /\ llm_calls <= 2 * ReactIterations
    /\ (ReactFinished /\ ~(step.responded /\ YieldsFinalAnswer(text))) =>
          /\ r_pc = "returned"
          /\ result = CannedMessage
          /\ r_iter = ReactIterations

\* "Rate limit" or "429" occurs in the message
MentionsRateLimit(msg) ==
    \E i \in 1..Len(msg) :
        \/ msg[i] = "429"
        \/ i < Len(msg) /\ msg[i] = "Rate" /\ msg[i + 1] = "limit"

\* C15: a pass whose model call raises with "Rate limit" or "429" in the
\* message sleeps exactly once and retries the call exactly once; a pass whose
\* model call raises with any other message makes no retry and no sleep,
\* appends an "LLM error" observation with the message to the scratchpad and
\* goes on to the next pass.
C15_RetryPolicy ==
    /\ (step.error # <<>> /\ MentionsRateLimit(step.error)) =>
          step.sleeps = 1 /\ step.llm_calls = 2
    /\ (step.error # <<>> /\ ~MentionsRateLimit(step.error)) =>
          /\ step.sleeps = 0
          /\ step.llm_calls = 1
          /\ step.tool_runs = 0
          /\ LastEntry = Entry("Observation: LLM error", step.error)
          /\ messages.scratchpad = scratchpad
          /\ r_iter > 0
          /\ \/ r_pc = "loop"
             \/ r_pc = "returned" /\ r_iter = ReactIterations /\ result = CannedMessage
    /\ step.error = <<>> => step.sleeps = 0 /\ step.llm_calls <= 1
    /\ sleeps <= llm_calls

\* A rate-limited call was retried after one sleep, and the retry responded
C15_RetriedOnce ==
    /\ step.error = <<"Rate", "limit", "reached">>
    /\ step.responded
    /\ step.sleeps = 1
    /\ step.llm_calls = 2
    /\ llm_calls = r_iter + 1
    /\ r_iter > 1

\* The response has neither the final-answer marker nor both the Action and
\* the Action Input marker
NoActionParsed(t) ==
    /\ ~HasMarker(t, FinalMarker)
    /\ ~(HasMarker(t, ActionMarker) /\ HasMarker(t, InputMarker))

\* C23: a model output with neither a final-answer marker nor both an Action
\* and an Action Input marker (an Action line with no Action Input included)
\* runs no tool: the raw text is appended to the scratchpad as it is, and the
\* function stays in its loop with the prompt rebuilt from the updated
\* scratchpad and the request to continue (after the twelfth pass the loop
\* ends with the canned message).
C23_NoActionAppendsText ==
    (step.responded /\ NoActionParsed(text)) =>
        /\ step.tool_runs = 0
        /\ scratchpad # <<>>
        /\ LastEntry = Entry("text", text)
        /\ messages = Refresh(scratchpad, "Continue. Output Thought, Action, Action Input.")
        /\ r_iter > 0
        /\ \/ r_pc = "loop"
           \/ r_pc = "returned" /\ r_iter = ReactIterations /\ result = CannedMessage

\* An Action line without an Action Input was appended and the loop goes on
C23_ActionLineAppended ==
    /\ r_pc = "loop"
    /\ step.responded
    /\ text = <<ActionMarker, SP, "news_search">>
    /\ LastEntry = Entry("text", text)
    /\ tool_runs = <<>>
    /\ r_iter < ReactIterations

\* C24: an exception raised by an allowed tool's run is caught: an error
\* observation carrying "Tool execution failed" is appended to the scratchpad
\* and the function stays in its loop with the refreshed prompt instead of
\* terminating (after the twelfth pass the loop ends with the canned message).
C24_ToolFailureObserved ==
    step.tool_raised =>
        /\ step.tool_runs = 1
        /\ tool_runs # <<>>
        /\ tool_runs[Len(tool_runs)].tool \in Allowed
        /\ scratchpad # <<>>
        /\ LastEntry = Entry("Observation", <<"{\"error\": \"Tool execution failed: boom\"}">>)
        /\ messages = Refresh(scratchpad, "Continue. Output Thought, Action, Action Input or Final Answer.")
        /\ r_iter > 0
        /\ \/ r_pc = "loop"
           \/ r_pc = "returned" /\ r_iter = ReactIterations /\ result = CannedMessage

\* A tool raised in an early pass and the loop is still running
C24_FailedToolLoopGoesOn ==
    /\ r_pc = "loop"
    /\ step.tool_raised
    /\ tool_runs = <<[tool |-> "news_search", arg |-> <<"fintech">>]>>
    /\ LastEntry.kind = "Observation"
    /\ r_iter < ReactIterations

\* C29: main() prints the offline report in place of the loop's result
\* exactly when the --idea mode is used and react_generate_report returned
\* the canned iteration-limit message; in the --idea-json and --name modes
\* the result is printed unchanged and offline_generate_report is never
\* called, and a final answer of the model is never replaced.
C29_OfflineOnlyOnLimit ==
    m_pc = "done" =>
        /\ (mode = "idea" /\ r_iter = ReactIterations) =>
              printed = OfflineReport /\ offline_calls = 1
        /\ mode \in {"idea_json", "name"} =>
              printed = result /\ offline_calls = 0
        /\ r_iter < ReactIterations =>
              printed = result /\ offline_calls = 0

-----------------------------------------------------------------------------
(* Properties of WorkingMemory, checked under SpecMemory *)

\* A payload as the elements it adds to a list
AsElements(data) == IF IsList(data) THEN data.items ELSE <<Element(data)>>

\* The elements passed for a category by a sequence of calls, in call order
RECURSIVE Accumulated(_, _)
Accumulated(category, updates) ==
    IF updates = <<>> THEN <<>>
    ELSE LET last == updates[Len(updates)] IN
         Accumulated(category, SubSeq(updates, 1, Len(updates) - 1))
         \o (IF last.data_type = category THEN AsElements(last.data) ELSE <<>>)

\* C30: update_collected_data accumulates for list-typed categories: after
\* any sequence of updates each category created as a list holds the
\* concatenation, in call order, of every list payload and every single item
\* passed for it; an update of a category whose value is a list keeps the
\* old elements as a prefix, so the length never decreases, and an empty list
\* leaves it unchanged; only a category whose value is not a list is
\* replaced by the payload.
C30_ListsAccumulate ==
    [][Len(wm_updates') = Len(wm_updates) + 1 =>
          LET u == wm_updates'[Len(wm_updates')] IN
          /\ \A c \in InitialCategories :
                /\ IsList(wm_collected_data'[c])
                /\ wm_collected_data'[c].items = Accumulated(c, wm_updates')
          /\ \A c \in DOMAIN wm_collected_data :
                /\ c \in DOMAIN wm_collected_data'
                /\ c # u.data_type => wm_collected_data'[c] = wm_collected_data[c]
                /\ IsList(wm_collected_data[c]) =>
                      /\ IsList(wm_collected_data'[c])
                      /\ IsPrefix(wm_collected_data[c].items, wm_collected_data'[c].items)
                      /\ Len(wm_collected_data'[c].items) >= Len(wm_collected_data[c].items)
                      /\ (c = u.data_type /\ u.data = PyList(<<>>)) =>
                            wm_collected_data'[c] = wm_collected_data[c]
                      /\ c = u.data_type =>
                            wm_collected_data'[c].items =
                                wm_collected_data[c].items \o AsElements(u.data)
                /\ (c = u.data_type /\ ~IsList(wm_collected_data[c])) =>
                      wm_collected_data'[c] = u.data]_vars

\* A list payload, a single item and an empty list were passed for one
\* category, and a category that held a string was replaced
C30_Accumulated ==
    /\ wm_updates = << [data_type |-> "competitors", data |-> PyList(<<"b", "a">>)],
                       [data_type |-> "competitors", data |-> PyStr(<<"a">>)],
                       [data_type |-> "competitors", data |-> PyList(<<>>)] >>
    /\ wm_collected_data["competitors"] = PyList(<<"b", "a", "a">>)

====
